---- MODULE Spec2Model ----
(***************************************************************************)
(* Model of the command-line contact manager of src/main.py: the read /    *)
(* parse / dispatch loop (main), the command parser (parse_command and its *)
(* helpers), the error-mapping decorator (input_error) and the command     *)
(* handlers, acting on the address book.                                   *)
(*                                                                         *)
(* Text is modelled as sequences of one-character strings, so that the     *)
(* prefix tests, substring tests, replacements, splitting, capitalisation  *)
(* and integer parsing of the parser are computed as the code computes     *)
(* them.  The module `classes` (Record, AddressBook, Phone, Birthday) is   *)
(* imported by src/main.py but is not part of the sources; its operations  *)
(* are modelled from sections 3, 4.1, 4.2 and 4.3 of the specification.    *)
(***************************************************************************)
EXTENDS Integers, Sequences, FiniteSets, TLC

VARIABLES
    address_book,   \* the global AddressBook: sequence of [key, record] in insertion order
    pc,             \* "prompt" (waiting for a line), "exited" (quit), "crashed" (exception left main)
    user_input,     \* the lowered line handed to parse_command by the last iteration
    run,            \* handler selected by the last iteration: a handler name, "None" or "n/a"
    caught,         \* failure kind caught by input_error around parse_command ("none" if none)
    shape,          \* shape of the value parse_command's wrapper returned: "tuple", "pair", "exc", "n/a"
    printed,        \* the print events of the last iteration, in order
    escaped         \* kind of the exception that left main ("none" if none)

vars == <<address_book, pc, user_input, run, caught, shape, printed, escaped>>

----------------------------------------------------------------------------
(* Characters and Python string methods                                    *)

LowerCase ==
    <<"a", "b", "c", "d", "e", "f", "g", "h", "i", "j", "k", "l", "m",
      "n", "o", "p", "q", "r", "s", "t", "u", "v", "w", "x", "y", "z">>

UpperCase ==
    <<"A", "B", "C", "D", "E", "F", "G", "H", "I", "J", "K", "L", "M",
      "N", "O", "P", "Q", "R", "S", "T", "U", "V", "W", "X", "Y", "Z">>

Digits ==
    <<"0", "1", "2", "3", "4", "5", "6", "7", "8", "9">>

\* str.upper / str.lower on one character
UpperChar(c) ==
    IF \E i \in 1..26 : LowerCase[i] = c
    THEN UpperCase[CHOOSE i \in 1..26 : LowerCase[i] = c]
    ELSE c

LowerChar(c) ==
    IF \E i \in 1..26 : UpperCase[i] = c
    THEN LowerCase[CHOOSE i \in 1..26 : UpperCase[i] = c]
    ELSE c

\* str.lower()
Lower(s) ==
    [i \in 1..Len(s) |-> LowerChar(s[i])]

\* str.capitalize(): first character upper-cased, the rest lower-cased
Capitalize(s) ==
    [i \in 1..Len(s) |-> IF i = 1 THEN UpperChar(s[i]) ELSE LowerChar(s[i])]

\* str.startswith(p)
StartsWith(s, p) ==
    /\ Len(s) >= Len(p)
    /\ SubSeq(s, 1, Len(p)) = p

\* `p in s` for strings
Contains(s, p) ==
    \E i \in 1..(Len(s) - Len(p) + 1) : SubSeq(s, i, i + Len(p) - 1) = p

\* str.replace(old, new): every non-overlapping occurrence, left to right
RECURSIVE Replace(_, _, _)
Replace(s, old, new) ==
    IF Len(s) < Len(old) THEN s
    ELSE IF SubSeq(s, 1, Len(old)) = old
         THEN new \o Replace(SubSeq(s, Len(old) + 1, Len(s)), old, new)
         ELSE <<s[1]>> \o Replace(Tail(s), old, new)

\* str.split(): split on runs of whitespace, no empty tokens
RECURSIVE SplitFrom(_, _)
SplitFrom(s, cur) ==
    IF s = <<>> THEN (IF cur = <<>> THEN <<>> ELSE <<cur>>)
    ELSE IF s[1] = " "
         THEN (IF cur = <<>> THEN <<>> ELSE <<cur>>) \o SplitFrom(Tail(s), <<>>)
         ELSE SplitFrom(Tail(s), Append(cur, s[1]))

Split(s) ==
    SplitFrom(s, <<>>)

IsDigit(c) ==
    \E i \in 1..10 : Digits[i] = c

DigitVal(c) ==
    (CHOOSE i \in 1..10 : Digits[i] = c) - 1

AllDigits(s) ==
    \A i \in 1..Len(s) : IsDigit(s[i])

\* int(token) succeeds: an optional sign followed by at least one digit
IsInt(tok) ==
    /\ tok # <<>>
    /\ LET body == IF tok[1] \in {"-", "+"} THEN Tail(tok) ELSE tok
       IN  body # <<>> /\ AllDigits(body)

RECURSIVE NatVal(_)
NatVal(ds) ==
    IF ds = <<>> THEN 0
    ELSE 10 * NatVal(SubSeq(ds, 1, Len(ds) - 1)) + DigitVal(ds[Len(ds)])

\* int(token), defined where IsInt(token)
ToInt(tok) ==
    IF tok[1] = "-" THEN 0 - NatVal(Tail(tok))
    ELSE IF tok[1] = "+" THEN NatVal(Tail(tok))
    ELSE NatVal(tok)

----------------------------------------------------------------------------
(* Input lines typed at the prompt                                         *)

L_hello ==
    <<"h", "e", "l", "l", "o">>

L_Hello ==
    <<"H", "e", "l", "l", "o">>

L_hellox ==
    <<"h", "e", "l", "l", "o", "x">>

L_show_all ==
    <<"s", "h", "o", "w", " ", "a", "l", "l">>

L_show_all_1 ==
    <<"s", "h", "o", "w", " ", "a", "l", "l", " ", "1">>

L_show_all_0 ==
    <<"s", "h", "o", "w", " ", "a", "l", "l", " ", "0">>

L_show_all_5 ==
    <<"s", "h", "o", "w", " ", "a", "l", "l", " ", "5">>

L_show_all_x ==
    <<"s", "h", "o", "w", " ", "a", "l", "l", " ", "x">>

L_show_all_neg ==
    <<"s", "h", "o", "w", " ", "a", "l", "l", " ", "-", "1">>

L_show_all_1_2 ==
    <<"s", "h", "o", "w", " ", "a", "l", "l", " ", "1", " ", "2">>

L_show ==
    <<"s", "h", "o", "w">>

L_phone_jim ==
    <<"p", "h", "o", "n", "e", " ", "j", "i", "m">>

L_phone_zed ==
    <<"p", "h", "o", "n", "e", " ", "z", "e", "d">>

L_phone ==
    <<"p", "h", "o", "n", "e">>

L_phonebook_jim ==
    <<"p", "h", "o", "n", "e", "b", "o", "o", "k", " ", "j", "i", "m">>

L_add_ann ==
    <<"a", "d", "d", " ", "a", "n", "n", " ", "0", "0", "0", "0", "0", "0", "0", "0", "0", "0">>

L_add_jim ==
    <<"a", "d", "d", " ", "j", "i", "m", " ", "0", "0", "0", "0", "0", "0", "0", "0", "0", "0">>

L_add_ann_bad ==
    <<"a", "d", "d", " ", "a", "n", "n", " ", "1", "2", "3">>

L_add_ann_short ==
    <<"a", "d", "d", " ", "a", "n", "n">>

L_address_ann ==
    <<"a", "d", "d", "r", "e", "s", "s", " ", "a", "n", "n", " ", "0", "0", "0", "0", "0", "0", "0", "0", "0", "0">>

L_add_phone_jim_B ==
    <<"a", "d", "d", " ", "p", "h", "o", "n", "e", " ", "j", "i", "m", " ", "0", "0", "0", "0", "0", "0", "0", "0", "0", "0">>

L_add_phone_jim_A ==
    <<"a", "d", "d", " ", "p", "h", "o", "n", "e", " ", "j", "i", "m", " ", "3", "4", "5", "6", "3", "4", "3", "6", "5", "1">>

L_add_phone_jim_bad ==
    <<"a", "d", "d", " ", "p", "h", "o", "n", "e", " ", "j", "i", "m", " ", "1", "2", "x">>

L_add_phone_zed ==
    <<"a", "d", "d", " ", "p", "h", "o", "n", "e", " ", "z", "e", "d", " ", "0", "0", "0", "0", "0", "0", "0", "0", "0", "0">>

L_add_phone_jim_short ==
    <<"a", "d", "d", " ", "p", "h", "o", "n", "e", " ", "j", "i", "m">>

L_add_birthday_bob ==
    <<"a", "d", "d", " ", "b", "i", "r", "t", "h", "d", "a", "y", " ", "b", "o", "b", " ", "2", "0", "0", "0", " ", "9", " ", "2", "7">>

L_add_birthday_bob_feb30 ==
    <<"a", "d", "d", " ", "b", "i", "r", "t", "h", "d", "a", "y", " ", "b", "o", "b", " ", "2", "0", "0", "0", " ", "2", " ", "3", "0">>

L_add_birthday_bob_two ==
    <<"a", "d", "d", " ", "b", "i", "r", "t", "h", "d", "a", "y", " ", "b", "o", "b", " ", "2", "0", "0", "0", " ", "9">>

L_add_birthday_bob_x ==
    <<"a", "d", "d", " ", "b", "i", "r", "t", "h", "d", "a", "y", " ", "b", "o", "b", " ", "2", "0", "0", "0", " ", "x", " ", "2", "7">>

L_add_birthday_zed ==
    <<"a", "d", "d", " ", "b", "i", "r", "t", "h", "d", "a", "y", " ", "z", "e", "d", " ", "2", "0", "0", "0", " ", "9", " ", "2", "7">>

L_add_birthday ==
    <<"a", "d", "d", " ", "b", "i", "r", "t", "h", "d", "a", "y">>

L_change_jim_A_B ==
    <<"c", "h", "a", "n", "g", "e", " ", "j", "i", "m", " ", "3", "4", "5", "6", "3", "4", "3", "6", "5", "1", " ", "0", "0", "0", "0", "0", "0", "0", "0", "0", "0">>

L_change_jim_B_A ==
    <<"c", "h", "a", "n", "g", "e", " ", "j", "i", "m", " ", "0", "0", "0", "0", "0", "0", "0", "0", "0", "0", " ", "3", "4", "5", "6", "3", "4", "3", "6", "5", "1">>

L_change_jim_A_A ==
    <<"c", "h", "a", "n", "g", "e", " ", "j", "i", "m", " ", "3", "4", "5", "6", "3", "4", "3", "6", "5", "1", " ", "3", "4", "5", "6", "3", "4", "3", "6", "5", "1">>

L_change_jim_C_B ==
    <<"c", "h", "a", "n", "g", "e", " ", "j", "i", "m", " ", "1", "1", "1", "1", "1", "1", "1", "1", "1", "1", " ", "0", "0", "0", "0", "0", "0", "0", "0", "0", "0">>

L_change_jim_A_bad ==
    <<"c", "h", "a", "n", "g", "e", " ", "j", "i", "m", " ", "3", "4", "5", "6", "3", "4", "3", "6", "5", "1", " ", "1", "2", "x">>

L_change_zed ==
    <<"c", "h", "a", "n", "g", "e", " ", "z", "e", "d", " ", "3", "4", "5", "6", "3", "4", "3", "6", "5", "1", " ", "0", "0", "0", "0", "0", "0", "0", "0", "0", "0">>

L_change_jim_short ==
    <<"c", "h", "a", "n", "g", "e", " ", "j", "i", "m", " ", "3", "4", "5", "6", "3", "4", "3", "6", "5", "1">>

L_changes_jim ==
    <<"c", "h", "a", "n", "g", "e", "s", " ", "j", "i", "m", " ", "3", "4", "5", "6", "3", "4", "3", "6", "5", "1", " ", "0", "0", "0", "0", "0", "0", "0", "0", "0", "0">>

L_change_ann_B_A ==
    <<"c", "h", "a", "n", "g", "e", " ", "a", "n", "n", " ", "0", "0", "0", "0", "0", "0", "0", "0", "0", "0", " ", "3", "4", "5", "6", "3", "4", "3", "6", "5", "1">>

L_foo ==
    <<"f", "o", "o">>

L_EXIT ==
    <<"E", "X", "I", "T">>

Lines ==
    {L_hello, L_Hello, L_hellox, L_show_all,
     L_show_all_1, L_show_all_0, L_show_all_5, L_show_all_x,
     L_show_all_neg, L_show_all_1_2, L_show, L_phone_jim,
     L_phone_zed, L_phone, L_phonebook_jim, L_add_ann,
     L_add_jim, L_add_ann_bad, L_add_ann_short, L_address_ann,
     L_add_phone_jim_B, L_add_phone_jim_A, L_add_phone_jim_bad, L_add_phone_zed,
     L_add_phone_jim_short, L_add_birthday_bob, L_add_birthday_bob_feb30, L_add_birthday_bob_two,
     L_add_birthday_bob_x, L_add_birthday_zed, L_add_birthday, L_change_jim_A_B,
     L_change_jim_B_A, L_change_jim_A_A, L_change_jim_C_B, L_change_jim_A_bad,
     L_change_zed, L_change_jim_short, L_changes_jim, L_foo,
     L_EXIT,
     L_change_ann_B_A, <<>>}
Q_good_bye ==
    <<"g", "o", "o", "d", " ", "b", "y", "e">>

Q_close ==
    <<"c", "l", "o", "s", "e">>

Q_exit ==
    <<"e", "x", "i", "t">>

W_hello ==
    <<"h", "e", "l", "l", "o">>

W_show_all ==
    <<"s", "h", "o", "w", " ", "a", "l", "l">>

W_phone ==
    <<"p", "h", "o", "n", "e">>

W_add ==
    <<"a", "d", "d">>

W_birthday ==
    <<"b", "i", "r", "t", "h", "d", "a", "y">>

W_add_phone ==
    <<"a", "d", "d", " ", "p", "h", "o", "n", "e">>

W_add_birthday ==
    <<"a", "d", "d", " ", "b", "i", "r", "t", "h", "d", "a", "y">>

W_change ==
    <<"c", "h", "a", "n", "g", "e">>

W_show ==
    <<"s", "h", "o", "w">>

W_all ==
    <<"a", "l", "l">>

N_Jim ==
    <<"J", "i", "m">>

N_Bob ==
    <<"B", "o", "b">>

P_Jim ==
    <<"3", "4", "5", "6", "3", "4", "3", "6", "5", "1">>

QUIT_COMMANDS ==
    {Q_good_bye, Q_close, Q_exit}

----------------------------------------------------------------------------
(* Messages and call results                                               *)

\* A printable value: a message kind, the name it is about, the records it renders
Msg(kind, name, recs) ==
    [kind |-> kind, name |-> name, recs |-> recs]

NoName == <<>>

\* Message kinds that report a completed operation; every other kind reports a failure
SuccessKinds ==
    {"HELLO_MESSAGE", "view", "EMPTY_MESSAGE", "phones",
     "phone has been added", "phone has been changed", "birthday has been added"}

\* A call that returned: `shape` is "str" (a message string), "exc" (an exception
\* object returned as a value), "pair" ((None, message)) or "tuple" ((handler, args...))
Returns(book, shp, handler, args, msg, out) ==
    [book |-> book, raised |-> "none", shape |-> shp, run |-> handler,
     args |-> args, msg |-> msg, out |-> out]

\* A call that raised an exception of the given kind
Raises(book, kind, msg, out) ==
    [book |-> book, raised |-> kind, shape |-> "n/a", run |-> "None",
     args |-> <<>>, msg |-> msg, out |-> out]

\* Python values handed to show_all_contacts: an int or the empty list
PyInt(n) == [type |-> "int", val |-> n]

PyEmptyList == [type |-> "list", val |-> 0]

Truthy(v) ==
    IF v.type = "int" THEN v.val # 0 ELSE FALSE

----------------------------------------------------------------------------
(* The module `classes`: field validators, Record, AddressBook             *)

\* Accepted phone length (the phones of the seed data and of the scenarios have 10 digits)
PhoneLen == 10

validate_phone(raw) ==
    /\ Len(raw) = PhoneLen
    /\ AllDigits(raw)

IsLeap(y) ==
    (y % 4 = 0 /\ y % 100 # 0) \/ y % 400 = 0

DaysIn(y, m) ==
    IF m = 2 THEN (IF IsLeap(y) THEN 29 ELSE 28)
    ELSE IF m \in {4, 6, 9, 11} THEN 30 ELSE 31

\* A birthday is a triple of integers forming a real calendar date
validate_birthday(b) ==
    /\ Len(b) = 3
    /\ b[1] >= 1
    /\ b[2] \in 1..12
    /\ b[3] >= 1
    /\ b[3] <= DaysIn(b[1], b[2])

NoBirthday == <<>>

Record(name, birthday) ==
    [name |-> name, phones |-> <<>>, birthday |-> birthday]

HasPhone(rec, value) ==
    \E i \in 1..Len(rec.phones) : rec.phones[i] = value

\* Record.add_phone: validate, reject an equal value, append
Record_add_phone(rec, raw) ==
    IF ~validate_phone(raw) THEN [ok |-> FALSE, err |-> "InvalidFormat", rec |-> rec]
    ELSE IF HasPhone(rec, raw) THEN [ok |-> FALSE, err |-> "DuplicatePhone", rec |-> rec]
    ELSE [ok |-> TRUE, err |-> "none", rec |-> [rec EXCEPT !.phones = Append(@, raw)]]

\* Record.edit_phone: find old, validate new, replace in place
Record_edit_phone(rec, old, new) ==
    IF ~HasPhone(rec, old) THEN [ok |-> FALSE, err |-> "PhoneNotFound", rec |-> rec]
    ELSE IF ~validate_phone(new) THEN [ok |-> FALSE, err |-> "InvalidFormat", rec |-> rec]
    ELSE LET i == CHOOSE k \in 1..Len(rec.phones) :
                      /\ rec.phones[k] = old
                      /\ \A j \in 1..(k - 1) : rec.phones[j] # old
         IN  [ok |-> TRUE, err |-> "none", rec |-> [rec EXCEPT !.phones[i] = new]]

\* Record.birthday.value = b: validate and overwrite
Record_set_birthday(rec, b) ==
    IF ~validate_birthday(b) THEN [ok |-> FALSE, err |-> "InvalidDate", rec |-> rec]
    ELSE [ok |-> TRUE, err |-> "none", rec |-> [rec EXCEPT !.birthday = b]]

Keys(book) ==
    {book[i].key : i \in 1..Len(book)}

IndexOf(book, name) ==
    CHOOSE i \in 1..Len(book) : book[i].key = name

\* AddressBook.find: the record under the key, or absent
AddressBook_find(book, name) ==
    IF name \in Keys(book)
    THEN [found |-> TRUE, record |-> book[IndexOf(book, name)].record]
    ELSE [found |-> FALSE, record |-> Record(NoName, NoBirthday)]

\* AddressBook.add_record: insert under record.name
AddressBook_add_record(book, rec) ==
    IF rec.name \in Keys(book) THEN [ok |-> FALSE, err |-> "DuplicateName", book |-> book]
    ELSE [ok |-> TRUE, err |-> "none", book |-> Append(book, [key |-> rec.name, record |-> rec])]

\* AddressBook[name] = record
AddressBook_set(book, name, rec) ==
    IF name \notin Keys(book) THEN [ok |-> FALSE, err |-> "RecordNotFound", book |-> book]
    ELSE [ok |-> TRUE, err |-> "none",
          book |-> [book EXCEPT ![IndexOf(book, name)].record = rec]]

\* Iteration over the book: its records in insertion order
AddressBook_iterate(book) ==
    [i \in 1..Len(book) |-> book[i].record]

\* A record held by the book is mutated in place: the entry it lives in changes
MutateInPlace(book, name, rec) ==
    [book EXCEPT ![IndexOf(book, name)].record = rec]

----------------------------------------------------------------------------
(* src/main.py: the decorator and the handlers                             *)

\* input_error.wrapper: what the decorated call returns
input_error(r) ==
    IF r.raised = "KeyError"
    THEN Returns(r.book, "exc", "None", <<>>, r.msg, r.out)
    ELSE IF r.raised = "IndexError"
    THEN Returns(r.book, "pair", "None", <<>>,
                 Msg("WRONG_NUMBER_OF_PARAMETERS_ERROR_MESSAGE", NoName, <<>>), r.out)
    ELSE IF r.raised = "TypeError"
    THEN Returns(r.book, "pair", "None", <<>>, r.msg, r.out)
    ELSE IF r.raised = "ValueError"
    THEN Returns(r.book, "exc", "None", <<>>, r.msg, r.out)
    ELSE r

hello(book) ==
    Returns(book, "str", "None", <<>>, Msg("HELLO_MESSAGE", NoName, <<>>), <<>>)

\* add_contact with the record inserted before its phone is validated
add_contact_body_insert_first(book, name, phone) ==
    IF AddressBook_find(book, name).found
    THEN Raises(book, "KeyError", Msg("already is in contacts", name, <<>>), <<>>)
    ELSE LET ins == AddressBook_add_record(book, Record(name, NoBirthday))
             added == Record_add_phone(Record(name, NoBirthday), phone)
         IN  IF ~added.ok
             THEN Raises(ins.book, "ValueError", Msg(added.err, name, <<>>), <<>>)
             ELSE Returns(MutateInPlace(ins.book, name, added.rec), "str", "None", <<>>,
                          Msg("phone has been added", name, <<>>), <<>>)

add_contact_body(book, name, phone) ==
    IF AddressBook_find(book, name).found
    THEN Raises(book, "KeyError", Msg("already is in contacts", name, <<>>), <<>>)
    ELSE LET added == Record_add_phone(Record(name, NoBirthday), phone)
         IN  IF ~added.ok
             THEN Raises(book, "ValueError", Msg(added.err, name, <<>>), <<>>)
             ELSE LET ins == AddressBook_add_record(book, added.rec)
                  IN  IF ~ins.ok
                      THEN Raises(book, "ValueError", Msg(ins.err, name, <<>>), <<>>)
                      ELSE Returns(ins.book, "str", "None", <<>>,
                                   Msg("phone has been added", name, <<>>), <<>>)

add_contact(book, name, phone) ==
    input_error(add_contact_body(book, name, phone))

\* change_contact with the arguments of edit_phone swapped
change_contact_body_swapped(book, name, phone_old, phone_new) ==
    IF AddressBook_find(book, name).found
    THEN LET contact_record == book[IndexOf(book, name)].record
             edited == Record_edit_phone(contact_record, phone_new, phone_old)
         IN  IF ~edited.ok
             THEN Raises(book, "ValueError", Msg(edited.err, name, <<>>), <<>>)
             ELSE LET stored == AddressBook_set(MutateInPlace(book, name, edited.rec),
                                                name, edited.rec)
                  IN  Returns(stored.book, "str", "None", <<>>,
                              Msg("phone has been changed", name, <<>>), <<>>)
    ELSE Raises(book, "KeyError", Msg("NO_RECORD_ERROR_MESSAGE", NoName, <<>>), <<>>)

\* change_contact re-assigning the module-level `record` (the first seed record)
\* instead of the record it edited
change_contact_body_stale_record(book, name, phone_old, phone_new) ==
    IF AddressBook_find(book, name).found
    THEN LET contact_record == book[IndexOf(book, name)].record
             edited == Record_edit_phone(contact_record, phone_old, phone_new)
         IN  IF ~edited.ok
             THEN Raises(book, "ValueError", Msg(edited.err, name, <<>>), <<>>)
             ELSE LET stored == AddressBook_set(MutateInPlace(book, name, edited.rec),
                                                name, book[1].record)
                  IN  Returns(stored.book, "str", "None", <<>>,
                              Msg("phone has been changed", name, <<>>), <<>>)
    ELSE Raises(book, "KeyError", Msg("NO_RECORD_ERROR_MESSAGE", NoName, <<>>), <<>>)

change_contact_body(book, name, phone_old, phone_new) ==
    IF AddressBook_find(book, name).found
    THEN LET contact_record == book[IndexOf(book, name)].record
             edited == Record_edit_phone(contact_record, phone_old, phone_new)
         IN  IF ~edited.ok
             THEN Raises(book, "ValueError", Msg(edited.err, name, <<>>), <<>>)
             ELSE LET stored == AddressBook_set(MutateInPlace(book, name, edited.rec),
                                                name, edited.rec)
                  IN  Returns(stored.book, "str", "None", <<>>,
                              Msg("phone has been changed", name, <<>>), <<>>)
    ELSE Raises(book, "KeyError", Msg("NO_RECORD_ERROR_MESSAGE", NoName, <<>>), <<>>)

change_contact(book, name, phone_old, phone_new) ==
    input_error(change_contact_body(book, name, phone_old, phone_new))

\* add_phone creating the record when the name is unknown
add_phone_body_upsert(book, name, phone) ==
    LET record == AddressBook_find(book, name)
        target == IF record.found THEN record.record ELSE Record(name, NoBirthday)
        added == Record_add_phone(target, phone)
    IN  IF ~added.ok
        THEN Returns(book, "exc", "None", <<>>, Msg(added.err, name, <<>>), <<>>)
        ELSE Returns(IF record.found
                     THEN MutateInPlace(book, name, added.rec)
                     ELSE AddressBook_add_record(book, added.rec).book,
                     "str", "None", <<>>, Msg("phone has been added", name, <<>>), <<>>)

add_phone_body(book, name, phone) ==
    LET record == AddressBook_find(book, name)
    IN  IF ~record.found
        THEN Raises(book, "KeyError", Msg("NO_RECORD_ERROR_MESSAGE", NoName, <<>>), <<>>)
        ELSE LET added == Record_add_phone(record.record, phone)
             IN  IF ~added.ok
                 THEN Returns(book, "exc", "None", <<>>, Msg(added.err, name, <<>>), <<>>)
                 ELSE Returns(MutateInPlace(book, name, added.rec), "str", "None", <<>>,
                              Msg("phone has been added", name, <<>>), <<>>)

add_phone(book, name, phone) ==
    input_error(add_phone_body(book, name, phone))

get_phone_body(book, name) ==
    LET record == AddressBook_find(book, name)
    IN  IF ~record.found
        THEN Returns(book, "exc", "None", <<>>,
                     Msg("NO_RECORD_ERROR_MESSAGE", NoName, <<>>), <<>>)
        ELSE Returns(book, "str", "None", <<>>, Msg("phones", name, <<record.record>>), <<>>)

get_phone(book, name) ==
    input_error(get_phone_body(book, name))

\* add_birthday is not decorated: its KeyError is not caught
add_birthday(book, name, birthday) ==
    LET record == AddressBook_find(book, name)
    IN  IF ~record.found
        THEN Raises(book, "KeyError", Msg("NO_RECORD_ERROR_MESSAGE", NoName, <<>>), <<>>)
        ELSE LET assigned == Record_set_birthday(record.record, birthday)
             IN  IF ~assigned.ok
                 THEN Returns(book, "exc", "None", <<>>, Msg(assigned.err, name, <<>>), <<>>)
                 ELSE Returns(MutateInPlace(book, name, assigned.rec), "str", "None", <<>>,
                              Msg("birthday has been added", name, <<>>), <<>>)

Min(a, b) ==
    IF a <= b THEN a ELSE b

\* show_all_contacts is not decorated: islice's ValueError on a negative stop is not caught
show_all_contacts(book, num) ==
    IF Truthy(num) /\ num.val < 0
    THEN Raises(book, "ValueError", Msg("islice stop", NoName, <<>>), <<>>)
    ELSE LET all == AddressBook_iterate(book)
             contacts == IF Truthy(num) THEN SubSeq(all, 1, Min(num.val, Len(all))) ELSE all
         IN  IF contacts = <<>>
             THEN Returns(book, "str", "None", <<>>, Msg("EMPTY_MESSAGE", NoName, <<>>), <<>>)
             ELSE Returns(book, "str", "None", <<>>, Msg("view", NoName, contacts), <<>>)

----------------------------------------------------------------------------
(* src/main.py: the command parser                                         *)

\* parse_command does not touch the address book
Parsed(handler, args, out) ==
    Returns(<<>>, "tuple", handler, args, Msg("none", NoName, <<>>), out)

ParseRaises(kind, what) ==
    Raises(<<>>, kind, Msg(what, NoName, <<>>), <<>>)

\* parse_complex_data: (data[1].capitalize(), data[2]); IndexError when a token is missing
parse_complex_data(text) ==
    LET data == Split(text)
    IN  IF Len(data) < 3
        THEN [raised |-> "IndexError", name |-> NoName, phone |-> <<>>]
        ELSE [raised |-> "none", name |-> Capitalize(data[2]), phone |-> data[3]]

\* parse_birthday: (data[1].capitalize(), tuple(map(int, data[2:])))
parse_birthday(text) ==
    LET data == Split(text)
    IN  IF Len(data) < 2
        THEN [raised |-> "IndexError", name |-> NoName, birthday |-> <<>>]
        ELSE IF \E i \in 3..Len(data) : ~IsInt(data[i])
        THEN [raised |-> "ValueError", name |-> NoName, birthday |-> <<>>]
        ELSE [raised |-> "none", name |-> Capitalize(data[2]),
              birthday |-> [i \in 1..(Len(data) - 2) |-> ToInt(data[i + 2])]]

parse_command_body(text) ==
    IF StartsWith(text, W_hello)
    THEN Parsed("hello", <<PyEmptyList>>, <<>>)
    ELSE IF StartsWith(text, W_show_all)
    THEN LET toks == Split(text)
         IN  IF Len(toks) = 3
             THEN IF IsInt(toks[3])
                  THEN Parsed("show_all_contacts", <<PyInt(ToInt(toks[3]))>>, <<>>)
                  ELSE ParseRaises("ValueError", "invalid literal for int")
             ELSE Parsed("show_all_contacts", <<PyEmptyList>>, <<>>)
    ELSE IF StartsWith(text, W_phone)
    THEN LET toks == Split(text)
         IN  IF Len(toks) < 2
             THEN ParseRaises("IndexError", "list index out of range")
             ELSE Parsed("get_phone", <<Capitalize(toks[2])>>, <<>>)
    ELSE IF StartsWith(text, W_add)
    THEN IF Contains(text, W_phone)
         THEN LET d == parse_complex_data(Replace(text, W_add_phone, W_add))
              IN  IF d.raised # "none"
                  THEN ParseRaises(d.raised, "list index out of range")
                  ELSE Parsed("add_phone", <<d.name, d.phone>>, <<>>)
         ELSE IF Contains(text, W_birthday)
         THEN LET d == parse_birthday(Replace(text, W_add_birthday, W_add))
              IN  IF d.raised = "IndexError"
                  THEN ParseRaises(d.raised, "list index out of range")
                  ELSE IF d.raised = "ValueError"
                  THEN ParseRaises(d.raised, "invalid literal for int")
                  ELSE Parsed("add_birthday", <<d.name, d.birthday>>, <<>>)
         ELSE LET d == parse_complex_data(text)
              IN  IF d.raised # "none"
                  THEN ParseRaises(d.raised, "list index out of range")
                  ELSE Parsed("add_contact", <<d.name, d.phone>>, <<>>)
    ELSE IF StartsWith(text, W_change)
    THEN LET user_data == Split(text)
         IN  IF Len(user_data) < 4
             THEN ParseRaises("IndexError", "list index out of range")
             ELSE Parsed("change_contact",
                         <<Capitalize(user_data[2]), user_data[3], user_data[4]>>,
                         <<Msg("debug", Capitalize(user_data[2]), <<>>)>>)
    ELSE ParseRaises("TypeError", "INVALID_COMMAND_ERROR_MESSAGE")

parse_command(text) ==
    input_error(parse_command_body(text))

\* The failure kind input_error catches around parse_command
ParseFailure(text) ==
    parse_command_body(text).raised

----------------------------------------------------------------------------
(* src/main.py: the loop                                                   *)

\* run(*args)
Call(handler, args, book) ==
    IF handler = "hello" THEN hello(book)
    ELSE IF handler = "show_all_contacts" THEN show_all_contacts(book, args[1])
    ELSE IF handler = "get_phone" THEN get_phone(book, args[1])
    ELSE IF handler = "add_phone" THEN add_phone(book, args[1], args[2])
    ELSE IF handler = "add_birthday" THEN add_birthday(book, args[1], args[2])
    ELSE IF handler = "add_contact" THEN add_contact(book, args[1], args[2])
    ELSE change_contact(book, args[1], args[2], args[3])

\* The seed data of the __main__ block
Init ==
    /\ address_book =
          <<[key |-> N_Jim,
             record |-> [name |-> N_Jim, phones |-> <<P_Jim>>, birthday |-> <<2000, 9, 27>>]],
            [key |-> N_Bob,
             record |-> [name |-> N_Bob, phones |-> <<>>, birthday |-> <<2000, 5, 27>>]]>>
    /\ pc = "prompt"
    /\ user_input = <<>>
    /\ run = "n/a"
    /\ caught = "none"
    /\ shape = "n/a"
    /\ printed = <<>>
    /\ escaped = "none"

Inputs ==
    Lines \cup QUIT_COMMANDS

\* Largest number of phones a record holds in the explored states
MaxPhones == 2

WithinBounds(book) ==
    \A i \in 1..Len(book) : Len(book[i].record.phones) <= MaxPhones

\* parse_command is a pure function of the line: its results on the input lines
ParseTable ==
    [line \in Inputs |-> parse_command(Lower(line))]

FailureTable ==
    [line \in Inputs |-> ParseFailure(Lower(line))]

\* One iteration of main's loop on a quit phrase
Quit(line) ==
    /\ pc = "prompt"
    /\ line \in QUIT_COMMANDS
    /\ pc' = "exited"
    /\ user_input' = line
    /\ run' = "n/a"
    /\ caught' = "none"
    /\ shape' = "n/a"
    /\ printed' = <<Msg("BYE_MESSAGE", NoName, <<>>)>>
    /\ escaped' = "none"
    /\ UNCHANGED address_book

\* One iteration of main's loop on any other line
Command(line) ==
    /\ pc = "prompt"
    /\ line \notin QUIT_COMMANDS
    /\ LET text == Lower(line)
           p == ParseTable[line]
       IN  /\ user_input' = text
           /\ caught' = FailureTable[line]
           /\ shape' = p.shape
           /\ IF p.shape = "exc"
              THEN \* `run, *args = <exception object>` raises TypeError
                   /\ run' = "n/a"
                   /\ pc' = "crashed"
                   /\ escaped' = "TypeError"
                   /\ printed' = p.out
                   /\ UNCHANGED address_book
              ELSE IF p.run # "None"
              THEN LET r == Call(p.run, p.args, address_book)
                   IN  /\ run' = p.run
                       /\ address_book' = r.book
                       /\ IF r.raised # "none"
                          THEN /\ pc' = "crashed"
                               /\ escaped' = r.raised
                               /\ printed' = p.out
                          ELSE /\ pc' = "prompt"
                               /\ escaped' = "none"
                               /\ printed' = p.out \o <<r.msg>>
              ELSE /\ run' = "None"
                   /\ pc' = "prompt"
                   /\ escaped' = "none"
                   /\ printed' = p.out \o <<p.msg>>
                   /\ UNCHANGED address_book
    /\ WithinBounds(address_book')

Next ==
    \E line \in Inputs :
        \/ Quit(line)
        \/ Command(line)

Spec ==
    Init /\ [][Next]_vars

----------------------------------------------------------------------------
(* Properties                                                              *)

\* The tokens of the last line handed to parse_command
Tokens ==
    Split(user_input)

\* The last iteration handled a command and returned to the prompt
Handled ==
    pc = "prompt" /\ shape # "n/a"

\* The message the last iteration printed last
LastPrinted ==
    printed[Len(printed)]

\* The last iteration returned to the prompt after a completed operation
Succeeded ==
    Handled /\ printed # <<>> /\ LastPrinted.kind \in SuccessKinds

\* The last iteration ended in an error: a failure message or an escaped exception
Failed ==
    \/ pc = "crashed"
    \/ Handled /\ printed # <<>> /\ LastPrinted.kind \notin SuccessKinds

RecordOf(book, name) ==
    book[IndexOf(book, name)].record

FirstIndex(phones, value) ==
    CHOOSE k \in 1..Len(phones) :
        /\ phones[k] = value
        /\ \A j \in 1..(k - 1) : phones[j] # value

Occurrences(phones, value) ==
    Cardinality({k \in 1..Len(phones) : phones[k] = value})

\* C1: no raised failure ever leaves parse_command, a handler or the loop's
\* destructuring: the loop never terminates with an exception.
C1_NoFailureEscapes ==
    pc # "crashed" /\ escaped = "none"

\* C2: every handled command prints exactly one message before the next prompt.
C2_ExactlyOnePrint ==
    Handled => Len(printed) = 1

\* C3: whatever failure kind input_error catches around parse_command, the
\* wrapper's result is a (None, message) pair.
C3_UniformShape ==
    caught # "none" => shape = "pair"

\* C4: 'show all N' with N >= 0 renders exactly the first min(N, k) records in
\* insertion order, 'show all' renders all k records, and an empty rendering
\* is replaced by the 'no records' message.
C4_ShowAllTruncates ==
    (Handled /\ run = "show_all_contacts" /\ Tokens[1] = W_show /\ Tokens[2] = W_all
        /\ (Len(Tokens) = 2 \/ (Len(Tokens) = 3 /\ ToInt(Tokens[3]) >= 0)))
    => LET all == AddressBook_iterate(address_book)
           expected == IF Len(Tokens) = 3
                       THEN SubSeq(all, 1, Min(ToInt(Tokens[3]), Len(all)))
                       ELSE all
       IN  printed = <<IF expected = <<>>
                       THEN Msg("EMPTY_MESSAGE", NoName, <<>>)
                       ELSE Msg("view", NoName, expected)>>

IsAddBirthdayLine ==
    /\ shape # "n/a"
    /\ Len(Tokens) >= 2
    /\ Tokens[1] = W_add
    /\ Tokens[2] = W_birthday

BadBirthdayArguments ==
    \/ Len(Tokens) - 3 < 3
    \/ \E i \in 4..Len(Tokens) : ~IsInt(Tokens[i])

\* C5: 'add birthday <name> ...' with fewer than 3 tokens after the name, or
\* with a token that is not an integer, yields an error message and invokes no
\* handler; otherwise it is routed to add_birthday.
C5_BirthdayArguments ==
    IsAddBirthdayLine =>
        IF BadBirthdayArguments
        THEN /\ pc = "prompt"
             /\ run = "None"
             /\ Len(printed) = 1
             /\ printed[1].kind \notin SuccessKinds
        ELSE run = "add_birthday"

MatchesGrammar(toks) ==
    /\ toks # <<>>
    /\ \/ toks[1] = W_hello
       \/ Len(toks) \in {2, 3} /\ toks[1] = W_show /\ toks[2] = W_all
       \/ toks[1] \in {W_phone, W_add, W_change}

\* C6: a line that matches none of the grammar forms gets the invalid-command
\* message and selects no handler.
C6_UnknownCommand ==
    (shape # "n/a" /\ ~MatchesGrammar(Tokens)) =>
        /\ pc = "prompt"
        /\ run = "None"
        /\ printed = <<Msg("INVALID_COMMAND_ERROR_MESSAGE", NoName, <<>>)>>

\* C7: a command that ends in an error leaves the address book exactly as it
\* was: same names, same phone sequences, same birthdays.
C7_ErrorLeavesBookUnchanged ==
    [][Failed' => address_book' = address_book]_vars

\* an add with an invalid phone for a new name was rejected
C7_Witness ==
    /\ Handled
    /\ run = "add_contact"
    /\ LastPrinted.kind = "InvalidFormat"
    /\ Capitalize(Tokens[2]) \notin Keys(address_book)

ChangeSucceeded ==
    Succeeded /\ run = "change_contact"

\* The effect of a change on the book that C8 states, apart from the absence of <old>
ReplacedInPlace(before, after, name, old, new) ==
    /\ name \in Keys(before)
    /\ HasPhone(RecordOf(before, name), old)
    /\ Len(after) = Len(before)
    /\ \A k \in 1..Len(before) : before[k].key # name => after[k] = before[k]
    /\ after[IndexOf(before, name)].key = name
    /\ LET was == RecordOf(before, name)
           is == after[IndexOf(before, name)].record
           i == FirstIndex(was.phones, old)
       IN  /\ is.name = was.name
           /\ is.birthday = was.birthday
           /\ Len(is.phones) = Len(was.phones)
           /\ is.phones[i] = new
           /\ \A j \in 1..Len(was.phones) : j # i => is.phones[j] = was.phones[j]

C9_KeyMatchesName ==
    /\ \A i \in 1..Len(address_book) : address_book[i].key = address_book[i].record.name
    /\ \A i, j \in 1..Len(address_book) :
           address_book[i].key = address_book[j].key => i = j

\* a change re-assigned a record that is not the first of the book
C9_Witness ==
    /\ ChangeSucceeded
    /\ IndexOf(address_book, Capitalize(Tokens[2])) > 1

\* C10: no command removes a name; the set of names grows only by a successful
\* add_contact, and then by exactly the capitalized name, absent before.
C10_NamesOnlyGrowByAdd ==
    [][/\ Keys(address_book) \subseteq Keys(address_book')
       /\ Keys(address_book') # Keys(address_book) =>
            /\ Succeeded'
            /\ run' = "add_contact"
            /\ LET name == Capitalize(Split(user_input')[2])
               IN  /\ name \notin Keys(address_book)
                   /\ Keys(address_book') = Keys(address_book) \cup {name}]_vars

\* a plain add created a record
C10_Witness ==
    /\ Succeeded
    /\ run = "add_contact"
    /\ LastPrinted.kind = "phone has been added"
    /\ Capitalize(Tokens[2]) \in Keys(address_book)
    /\ Len(address_book) = 3

====
